---- MODULE Spec2Model ----
(***************************************************************************)
(* Model of the request execution pipeline of httpc (src/httpc.go):        *)
(* Client.Do builds a chain of RoundTrippers (retry, log, user middleware, *)
(* base transport) and runs the request through it.  Durations are in      *)
(* milliseconds.  An error value is the sequence of identities reachable   *)
(* from it by errors.Is / errors.As (outermost first); <<>> is nil.        *)
(***************************************************************************)
EXTENDS Integers, Sequences, FiniteSets, TLC

\* ---- bounds -------------------------------------------------------------
MaxRetries == 2          \* RetryOptions.MaxAttempts ranges over 0..MaxRetries
MaxMiddlewares == 2      \* at most this many middlewares are registered
MaxExecs == 2            \* executions of Client.Do on one client

\* ---- input domains -------------------------------------------------------
BaseDelays == {100, 600}
MaxDelays == {1000}
StatusSets == {{429, 503}}
Statuses == {200, 429, 503}

NoHeader == [kind |-> "none", v |-> 0]
\* Retry-After header values: absent, integer seconds, garbage, HTTP-date
\* (v = milliseconds from now to the date, negative when in the past).
RetryAfterHeaders ==
    { NoHeader,
      [kind |-> "int", v |-> 2], [kind |-> "int", v |-> 0],
      [kind |-> "bad", v |-> 0],
      [kind |-> "date", v |-> 0 - 5000], [kind |-> "date", v |-> 3000] }

NoResp == [status |-> 0, retryAfter |-> NoHeader, body |-> "none"]
Responses ==
    [status : Statuses, retryAfter : RetryAfterHeaders, body : {"open"}]

NilErr == <<>>
\* errors the base transport can return while the context is live
TransportErrors == { <<"NetRefused">>, <<"NetTimeout">>, <<"Other">> }

RetryPolicies ==
    [MaxAttempts : 0..MaxRetries, BaseDelay : BaseDelays, MaxDelay : MaxDelays,
     RetryStatuses : StatusSets, Jitter : BOOLEAN]

\* a request: whether it carries a body, what req.GetBody is (nil, a function
\* that succeeds, a function that fails), and the state of its context
Requests ==
    [hasBody : BOOLEAN, GetBody : {"nil", "ok", "err"}]
CtxStates == {"live", "deadline", "canceled"}

VARIABLES
    retryOpts,     \* c.retryOpts
    dumpLog,       \* c.dumpLog # nil
    middlewares,   \* c.middlewares, in registration order
    req,           \* the request being executed
    ctx,           \* state of req.Context()
    pc,            \* position of the executing goroutine
    finalRT,       \* the chain built by Do, outermost layer first
    pos,           \* index in finalRT of the layer now running
    attempt,       \* loop variable of retryRoundTripper
    lastResp,      \* lastResp (the same object as resp after line 785)
    lastErr,       \* lastErr
    delay,         \* delay computed at lines 799-802
    trace,         \* pre-delegation events of the current attempt, in order
    hist,          \* outcomes the retry loop (or Do) got from next, in order
    calls,         \* calls of the retry handler to next in this execution
    transportCalls,\* round trips of the base transport in this execution
    origSends,     \* times the original request body was handed to the transport
    result,        \* what Do returned: [resp, err]
    execs          \* executions of Do started so far

VARIABLES
    timeout,       \* c.timeout and c.client.Timeout, 0 when none is set
    dial,          \* one execution of customDialer.DialContext (src/resolver.go)
    dec,           \* one execution of a response method on a response
    conc,          \* two executions of Client.Do running concurrently
    bk,            \* calculateExponentialBackoff over successive attempt indices
    bufferPool     \* the pooled buffers and the request builders that use them

\* the variables of the request pipeline
doVars == <<retryOpts, dumpLog, middlewares, req, ctx, pc, finalRT, pos, attempt,
            lastResp, lastErr, delay, trace, hist, calls, transportCalls,
            origSends, result, execs>>

\* the variables the request pipeline never touches
subVars == <<timeout, dial, dec, conc, bk, bufferPool>>

vars == <<doVars, subVars>>

\* ---- errors ----------------------------------------------------------------
\* errors.Is(e, target)
ErrorsIs(e, target) == \E i \in 1..Len(e) : e[i] = target

\* identities whose concrete type implements net.Error
\* (context.DeadlineExceeded is a deadlineExceededError with Timeout() = true)
NetErrorKinds == {"DeadlineExceeded", "NetTimeout", "NetRefused"}
TimeoutKinds == {"DeadlineExceeded", "NetTimeout"}

\* isNetworkError accepting every error
isNetworkErrorAny(e) == e # NilErr

\* isNetworkError: errors.As(err, &netErr)
isNetworkError(e) == \E i \in 1..Len(e) : e[i] \in NetErrorKinds

\* wrapError: "%w: %v" keeps only ErrRequestTimeout in the chain
wrapError(e) ==
    IF ErrorsIs(e, "DeadlineExceeded") THEN <<"ErrRequestTimeout">>
    ELSE IF e # NilErr /\ Head(e) \in NetErrorKinds /\ Head(e) \in TimeoutKinds
         THEN <<"ErrRequestTimeout">>
         ELSE e

\* req.Context().Err()
CtxErr(c) ==
    IF c = "deadline" THEN <<"DeadlineExceeded">>
    ELSE IF c = "canceled" THEN <<"Canceled">>
    ELSE NilErr

\* ---- retry policy helpers ---------------------------------------------------
\* variant: every response is retried, whatever its status
shouldRetryAnyStatus(opts, resp, err) ==
    IF err # NilErr THEN isNetworkError(err)
    ELSE resp # NoResp

\* shouldRetry
shouldRetry(opts, resp, err) ==
    IF err # NilErr THEN isNetworkError(err)
    ELSE resp # NoResp /\ resp.status \in opts.RetryStatuses

\* parseRetryAfter: [d |-> duration, ok |-> err = nil]
parseRetryAfter(h) ==
    IF h.kind = "int" THEN [d |-> h.v * 1000, ok |-> TRUE]
    ELSE IF h.kind = "date" /\ h.v > 0 THEN [d |-> h.v, ok |-> TRUE]
    ELSE [d |-> 0, ok |-> FALSE]

\* calculateRetryAfter
calculateRetryAfter(opts, resp) ==
    IF resp = NoResp THEN 0
    ELSE IF resp.retryAfter.kind # "none" /\ parseRetryAfter(resp.retryAfter).ok
         THEN parseRetryAfter(resp.retryAfter).d
         ELSE opts.BaseDelay

RECURSIVE Pow2(_)
Pow2(n) == IF n = 0 THEN 1 ELSE 2 * Pow2(n - 1)

\* time.Duration is an int64 counting nanoseconds.  An int64 is modelled by
\* its 64 bits in two's complement, bit 0 the least significant.
NsPerMs == 1000000
Bits64 == 0..63
Zero64 == [k \in Bits64 |-> 0]
\* the int64 of an integer 0 <= n < 2^31
Pow2Low == [k \in 0..30 |-> Pow2(k)]
ToInt64(n) == [k \in Bits64 |-> IF k <= 30 THEN (n \div Pow2Low[k]) % 2 ELSE 0]
\* x << s on int64: bits shifted out are lost, a shift of 64 or more gives 0
Shl64(x, s) == [k \in Bits64 |-> IF k >= s THEN x[k - s] ELSE 0]
\* x * p on int64 where p is 0 or has a single bit set (the product modulo
\* 2^64 is then x shifted by the position of that bit)
MulPow64(x, p) ==
    IF p = Zero64 THEN Zero64
    ELSE Shl64(x, CHOOSE k \in Bits64 : p[k] = 1)
\* x < y on the bits k .. 0, read as an unsigned number
RECURSIVE ULess(_, _, _)
ULess(x, y, k) ==
    IF k < 0 THEN FALSE
    ELSE IF x[k] # y[k] THEN x[k] < y[k]
    ELSE ULess(x, y, k - 1)
\* x < y on int64
Less64(x, y) == IF x[63] # y[63] THEN x[63] = 1 ELSE ULess(x, y, 62)
\* the integer of an int64 in 0 .. 2^31 - 1
RECURSIVE LowInt(_, _)
LowInt(x, k) == IF k > 30 THEN 0 ELSE x[k] * Pow2Low[k] + LowInt(x, k + 1)

\* lines 990-993: BaseDelay * time.Duration(1<<uint(attempt)), then the
\* clamp to MaxDelay; base and max are int64 nanoseconds
backoff64(base, max, att) ==
    LET d0 == MulPow64(base, Shl64(ToInt64(1), att))
    IN  IF Less64(max, d0) THEN max ELSE d0

\* lines 990-993 in milliseconds, for delays that fit 31 bits
backoffMs(base, max, att) ==
    LowInt(backoff64(ToInt64(base * NsPerMs), ToInt64(max * NsPerMs), att), 0)
    \div NsPerMs

\* backoffMs computed once for the delays and attempt indices of the
\* policies in RetryPolicies
BackoffTable ==
    [b \in BaseDelays, m \in MaxDelays, a \in 0..MaxRetries |-> backoffMs(b, m, a)]

\* calculateExponentialBackoff, in milliseconds
calculateExponentialBackoff(opts, att, jitter) ==
    LET key == <<opts.BaseDelay, opts.MaxDelay, att>>
        d1 == IF key \in DOMAIN BackoffTable THEN BackoffTable[key]
              ELSE backoffMs(opts.BaseDelay, opts.MaxDelay, att)
    IN  IF jitter THEN (d1 * (8 + 4 * att)) \div 10 ELSE d1

\* variant: the header delay is clamped to MaxDelay like the backoff
RetryDelayClamped(opts, resp, att) ==
    LET d == calculateRetryAfter(opts, resp)
    IN  IF d <= 0 THEN calculateExponentialBackoff(opts, att, opts.Jitter)
        ELSE IF d > opts.MaxDelay THEN opts.MaxDelay ELSE d

\* lines 799-802
RetryDelay(opts, resp, att) ==
    LET d == calculateRetryAfter(opts, resp)
    IN  IF d <= 0 THEN calculateExponentialBackoff(opts, att, opts.Jitter) ELSE d

\* ---- chain construction ------------------------------------------------------
\* lines 712-714: for i := len-1 .. 0 { finalRT = middlewares[i](finalRT) }
RECURSIVE ApplyMiddlewares(_, _, _)
ApplyMiddlewares(mws, i, rt) ==
    IF i = 0 THEN rt
    ELSE ApplyMiddlewares(mws, i - 1, <<[kind |-> "mw", id |-> mws[i]]>> \o rt)

Layer(k) == [kind |-> k, id |-> 0]

\* variant: the log layer is installed below the middlewares
BuildChainLogInnermost(opts, log, mws) ==
    LET rt0 == <<Layer("transport")>>
        rt1 == IF log THEN <<Layer("log")>> \o rt0 ELSE rt0
        rt2 == ApplyMiddlewares(mws, Len(mws), rt1)
    IN  IF opts.MaxAttempts > 0 THEN <<Layer("retry")>> \o rt2 ELSE rt2

\* variant: the retry layer is installed whatever MaxAttempts is
BuildChainAlwaysRetry(opts, log, mws) ==
    LET rt0 == <<Layer("transport")>>
        rt1 == ApplyMiddlewares(mws, Len(mws), rt0)
        rt2 == IF log THEN <<Layer("log")>> \o rt1 ELSE rt1
    IN  <<Layer("retry")>> \o rt2

\* lines 709-723
BuildChain(opts, log, mws) ==
    LET rt0 == <<Layer("transport")>>
        rt1 == ApplyMiddlewares(mws, Len(mws), rt0)
        rt2 == IF log THEN <<Layer("log")>> \o rt1 ELSE rt1
    IN  IF opts.MaxAttempts > 0 THEN <<Layer("retry")>> \o rt2 ELSE rt2

\* defaultRetryOptions
defaultRetryOptions ==
    [MaxAttempts |-> 2, BaseDelay |-> 100, MaxDelay |-> 1000,
     RetryStatuses |-> {429, 500, 502, 503, 504}, Jitter |-> FALSE]

\* ---- state machine -------------------------------------------------------------
NoResult == [resp |-> NoResp, err |-> NilErr, at |-> "none"]

\* New(WithRetryOptions(opts)): the client after construction
NewWith(opts) ==
    /\ retryOpts = opts
    /\ dumpLog = FALSE
    /\ middlewares = <<>>
    /\ req = [hasBody |-> FALSE, GetBody |-> "nil"]
    /\ ctx = "live"
    /\ pc = "idle"
    /\ finalRT = <<>>
    /\ pos = 0
    /\ attempt = 0
    /\ lastResp = NoResp
    /\ lastErr = NilErr
    /\ delay = 0
    /\ trace = <<>>
    /\ hist = <<>>
    /\ calls = 0
    /\ transportCalls = 0
    /\ origSends = 0
    /\ result = NoResult
    /\ execs = 0

\* New(): the client before any option is applied
New == NewWith(defaultRetryOptions)

runVars == <<req, ctx, pc, finalRT, pos, attempt, lastResp, lastErr, delay,
             trace, hist, calls, transportCalls, origSends, result, execs>>

\* WithRetryOptions / SetRetryOptions
SetRetryOptions(opts) ==
    /\ pc = "idle" /\ execs = 0
    /\ retryOpts' = opts
    /\ UNCHANGED <<dumpLog, middlewares>>
    /\ UNCHANGED runVars
    /\ UNCHANGED subVars

\* SetRetryOptions called by another goroutine while Do is running: the
\* field is assigned without a lock and the loop reads it on every use
SetRetryOptionsInFlight(opts) ==
    /\ pc \in {"call", "loop", "inflight", "wait"}
    /\ opts # retryOpts
    /\ retryOpts' = opts
    /\ UNCHANGED <<dumpLog, middlewares>>
    /\ UNCHANGED runVars
    /\ UNCHANGED subVars

\* WithDumpLog / WithDumpLogFunc / SetDumpLogFunc
SetDumpLogFunc ==
    /\ pc = "idle" /\ execs = 0
    /\ ~dumpLog
    /\ dumpLog' = TRUE
    /\ UNCHANGED <<retryOpts, middlewares>>
    /\ UNCHANGED runVars
    /\ UNCHANGED subVars

\* WithMiddleware: middlewares are named by their registration index
WithMiddleware ==
    /\ pc = "idle" /\ execs = 0
    /\ Len(middlewares) < MaxMiddlewares
    /\ middlewares' = Append(middlewares, Len(middlewares))
    /\ UNCHANGED <<retryOpts, dumpLog>>
    /\ UNCHANGED runVars
    /\ UNCHANGED subVars

\* client timeouts, in milliseconds
Timeouts == {5000}

\* WithTimeout / SetTimeout: the value is stored in c.timeout and in
\* c.client.Timeout
SetTimeout(t) ==
    /\ pc = "idle" /\ execs = 0
    /\ timeout = 0
    /\ timeout' = t
    /\ UNCHANGED <<doVars, dial, dec, conc, bk, bufferPool>>

cfgVars == <<retryOpts, dumpLog, middlewares>>

\* what Do hands back to its caller; at names the return statement taken
Return(resp, err, at) ==
    /\ pc' = "done"
    /\ pos' = 0
    /\ result' = [resp |-> resp, err |-> err, at |-> at]

\* Client.Do: build the chain and enter its outermost layer
Do(r, c) ==
    /\ pc \in {"idle", "done", "returned"}
    /\ execs < MaxExecs
    /\ execs > 0 => (r = req /\ c = ctx)
    /\ req' = r
    /\ ctx' = c
    /\ execs' = execs + 1
    /\ finalRT' = BuildChain(retryOpts, dumpLog, middlewares)
    /\ pos' = 1
    /\ pc' = "call"
    /\ attempt' = 0
    /\ lastResp' = NoResp
    /\ lastErr' = NilErr
    /\ delay' = 0
    /\ trace' = <<>>
    /\ hist' = <<>>
    /\ calls' = 0
    /\ transportCalls' = 0
    /\ origSends' = 0
    /\ result' = NoResult
    /\ UNCHANGED cfgVars
    /\ UNCHANGED subVars

CloseBody(resp) ==
    IF resp = NoResp THEN resp
    ELSE [resp EXCEPT !.body = IF @ = "open" THEN "closed" ELSE @]

\* retryRoundTripper, lines 738-747: entry of the retry layer
RetryEnter ==
    /\ pc = "call" /\ finalRT[pos].kind = "retry"
    /\ pc' = "loop"
    /\ attempt' = 0
    /\ lastResp' = NoResp
    /\ lastErr' = NilErr
    /\ UNCHANGED <<req, ctx, finalRT, pos, delay, trace, hist, calls,
                   transportCalls, origSends, result, execs>>
    /\ UNCHANGED cfgVars
    /\ UNCHANGED subVars

\* lines 819-822
RetryExit(resp, err, at) ==
    Return(resp, IF err # NilErr THEN wrapError(err) ELSE NilErr, at)

\* variant: the missing bodyReaderFunc is noticed one iteration late
BodyNotReusableLate(att, r) == att > 1 /\ r.GetBody = "nil"

\* lines 751-759: no bodyReaderFunc on a second or later iteration
BodyNotReusable(att, r) == att > 0 /\ r.GetBody = "nil"

\* line 793 with the test never true: the loop goes on to wait and lets
\* its condition at line 749 end it
LastAttemptNever(opts, att) == FALSE

\* line 793
LastAttempt(opts, att) == att >= opts.MaxAttempts

\* line 794 left out: the last attempt's own error is kept
ExhaustedErrKept(err) == err

\* line 794
ExhaustedErr(err) == <<"ErrMaxRetriesExceeded">>

\* lines 749-784 without the select of lines 773-780
RetryLoopNoCtxCheck ==
    /\ pc = "loop"
    /\ IF attempt > retryOpts.MaxAttempts
         THEN /\ RetryExit(lastResp, lastErr, "loop-end")
              /\ UNCHANGED <<lastResp, trace, calls>>
       ELSE IF BodyNotReusable(attempt, req)
         THEN /\ RetryExit(lastResp, lastErr, "getbody-nil")
              /\ UNCHANGED <<lastResp, trace, calls>>
       ELSE IF attempt > 0 /\ req.GetBody = "err"
         THEN /\ lastResp' = CloseBody(lastResp)
              /\ Return(NoResp, <<"GetBodyFailed", "GetBodyErr">>, "getbody-err")
              /\ UNCHANGED <<trace, calls>>
       ELSE /\ pc' = "call"
            /\ pos' = pos + 1
            /\ calls' = calls + 1
            /\ trace' = <<>>
            /\ UNCHANGED <<lastResp, result>>
    /\ UNCHANGED <<req, ctx, finalRT, attempt, lastErr, delay, hist,
                   transportCalls, origSends, execs>>
    /\ UNCHANGED cfgVars
    /\ UNCHANGED subVars

\* lines 749-784: head of one loop iteration up to the call of next
RetryLoop ==
    /\ pc = "loop"
    /\ IF attempt > retryOpts.MaxAttempts
         THEN /\ RetryExit(lastResp, lastErr, "loop-end")
              /\ UNCHANGED <<lastResp, trace, calls>>
       ELSE IF BodyNotReusable(attempt, req)
         THEN /\ RetryExit(lastResp, lastErr, "getbody-nil")
              /\ UNCHANGED <<lastResp, trace, calls>>
       ELSE IF attempt > 0 /\ req.GetBody = "err"
         THEN /\ lastResp' = CloseBody(lastResp)
              /\ Return(NoResp, <<"GetBodyFailed", "GetBodyErr">>, "getbody-err")
              /\ UNCHANGED <<trace, calls>>
       ELSE IF ctx # "live"
         THEN /\ lastResp' = CloseBody(lastResp)
              /\ Return(NoResp, wrapError(CtxErr(ctx)), "ctx-check")
              /\ UNCHANGED <<trace, calls>>
       ELSE /\ pc' = "call"
            /\ pos' = pos + 1
            /\ calls' = calls + 1
            /\ trace' = <<>>
            /\ UNCHANGED <<lastResp, result>>
    /\ UNCHANGED <<req, ctx, finalRT, attempt, lastErr, delay, hist,
                   transportCalls, origSends, execs>>
    /\ UNCHANGED cfgVars
    /\ UNCHANGED subVars

\* lines 729-734 with the request logged on the first attempt only
LogFirstAttemptOnly ==
    /\ pc = "call" /\ finalRT[pos].kind = "log"
    /\ trace' = IF attempt = 0 THEN Append(trace, finalRT[pos]) ELSE trace
    /\ pos' = pos + 1
    /\ UNCHANGED <<req, ctx, pc, finalRT, attempt, lastResp, lastErr, delay,
                   hist, calls, transportCalls, origSends, result, execs>>
    /\ UNCHANGED cfgVars
    /\ UNCHANGED subVars

\* logRoundTripper, lines 729-734
LogRoundTrip ==
    /\ pc = "call" /\ finalRT[pos].kind = "log"
    /\ trace' = Append(trace, finalRT[pos])
    /\ pos' = pos + 1
    /\ UNCHANGED <<req, ctx, pc, finalRT, attempt, lastResp, lastErr, delay,
                   hist, calls, transportCalls, origSends, result, execs>>
    /\ UNCHANGED cfgVars
    /\ UNCHANGED subVars

\* a user middleware: runs its pre-delegation logic, then delegates to next
MiddlewareRoundTrip ==
    /\ pc = "call" /\ finalRT[pos].kind = "mw"
    /\ trace' = Append(trace, finalRT[pos])
    /\ pos' = pos + 1
    /\ UNCHANGED <<req, ctx, pc, finalRT, attempt, lastResp, lastErr, delay,
                   hist, calls, transportCalls, origSends, result, execs>>
    /\ UNCHANGED cfgVars
    /\ UNCHANGED subVars

\* the base transport starts a round trip
TransportSend ==
    /\ pc = "call" /\ finalRT[pos].kind = "transport"
    /\ trace' = Append(trace, finalRT[pos])
    /\ transportCalls' = transportCalls + 1
    /\ origSends' = IF req.hasBody /\ (attempt = 0 \/ req.GetBody # "ok")
                       THEN origSends + 1 ELSE origSends
    /\ pc' = "inflight"
    /\ UNCHANGED <<req, ctx, finalRT, pos, attempt, lastResp, lastErr, delay,
                   hist, calls, result, execs>>
    /\ UNCHANGED cfgVars
    /\ UNCHANGED subVars

\* outcomes of a round trip: the context error once the context is done
TransportOutcomes(c) ==
    IF c # "live" THEN { [resp |-> NoResp, err |-> CtxErr(c)] }
    ELSE { [resp |-> r, err |-> NilErr] : r \in Responses }
         \cup { [resp |-> NoResp, err |-> e] : e \in TransportErrors }

HistEntry(o) == [status |-> o.resp.status, err |-> o.err]

\* lines 804-808 left out: the body stays open during the wait
DrainSkipped(resp) == resp

\* lines 804-808: io.Copy(io.Discard, resp.Body); resp.Body.Close()
DrainAndClose(resp) ==
    IF resp # NoResp THEN [resp EXCEPT !.body = "drained"] ELSE resp

\* lines 785-808 and 819-822: the retry layer gets (resp, err) from next
RetryDecide(o) ==
    /\ IF ~shouldRetry(retryOpts, o.resp, o.err)
         THEN /\ lastResp' = o.resp
              /\ lastErr' = o.err
              /\ RetryExit(o.resp, o.err, "not-retryable")
              /\ UNCHANGED delay
       ELSE IF LastAttempt(retryOpts, attempt)
         THEN /\ lastResp' = o.resp
              /\ lastErr' = ExhaustedErr(o.err)
              /\ RetryExit(o.resp, ExhaustedErr(o.err), "exhausted")
              /\ UNCHANGED delay
       ELSE /\ lastErr' = o.err
            /\ delay' = RetryDelay(retryOpts, o.resp, attempt)
            /\ lastResp' = DrainAndClose(o.resp)
            /\ pc' = "wait"
            /\ pos' = 1
            /\ UNCHANGED result

\* the round trip ends; log and middleware layers pass the result up unchanged
TransportReturn ==
    /\ pc = "inflight"
    /\ \E o \in TransportOutcomes(ctx) :
        /\ hist' = Append(hist, HistEntry(o))
        /\ IF finalRT[1].kind = "retry"
             THEN RetryDecide(o)
             ELSE /\ Return(o.resp, o.err, "direct")
                  /\ lastResp' = o.resp
                  /\ lastErr' = o.err
                  /\ UNCHANGED delay
    /\ UNCHANGED <<req, ctx, finalRT, attempt, trace, calls, transportCalls,
                   origSends, execs>>
    /\ UNCHANGED cfgVars
    /\ UNCHANGED subVars

\* the select of lines 811-816 with the timer case taken whatever the context
WaitTimerIgnoresCtx ==
    /\ pc = "wait"
    /\ attempt' = attempt + 1
    /\ pc' = "loop"
    /\ UNCHANGED <<req, ctx, finalRT, pos, lastResp, lastErr, delay, trace,
                   hist, calls, transportCalls, origSends, result, execs>>
    /\ UNCHANGED cfgVars
    /\ UNCHANGED subVars

\* lines 811-816, case <-time.After(delay)
WaitTimer ==
    /\ pc = "wait"
    /\ ctx = "live" \/ delay <= 0
    /\ attempt' = attempt + 1
    /\ pc' = "loop"
    /\ UNCHANGED <<req, ctx, finalRT, pos, lastResp, lastErr, delay, trace,
                   hist, calls, transportCalls, origSends, result, execs>>
    /\ UNCHANGED cfgVars
    /\ UNCHANGED subVars

\* lines 811-813, case <-req.Context().Done()
WaitCtxDone ==
    /\ pc = "wait"
    /\ ctx # "live"
    /\ Return(NoResp, wrapError(CtxErr(ctx)), "ctx-wait")
    /\ UNCHANGED <<req, ctx, finalRT, attempt, lastResp, lastErr, delay, trace,
                   hist, calls, transportCalls, origSends, execs>>
    /\ UNCHANGED cfgVars
    /\ UNCHANGED subVars

\* Text, Bytes, DecodeJSON, DecodeXML, DecodeGOB (lines 1039-1094), from the
\* return of Execute on: an error is handed to the caller at once; otherwise
\* the body is closed when the method returns (defer resp.Body.Close())
ResponseMethod ==
    /\ pc = "done"
    /\ pc' = "returned"
    /\ result' = IF result.err # NilErr THEN result
                 ELSE [result EXCEPT !.resp = CloseBody(@)]
    /\ UNCHANGED <<req, ctx, finalRT, pos, attempt, lastResp, lastErr, delay,
                   trace, hist, calls, transportCalls, origSends, execs>>
    /\ UNCHANGED cfgVars
    /\ UNCHANGED subVars

\* the deadline of the request's context fires
CtxDeadline ==
    /\ pc \in {"call", "loop", "inflight", "wait"}
    /\ ctx = "live"
    /\ ctx' = "deadline"
    /\ UNCHANGED <<req, pc, finalRT, pos, attempt, lastResp, lastErr, delay,
                   trace, hist, calls, transportCalls, origSends, result, execs>>
    /\ UNCHANGED cfgVars
    /\ UNCHANGED subVars

\* the caller cancels the request's context
CtxCancel ==
    /\ pc \in {"call", "loop", "inflight", "wait"}
    /\ ctx = "live"
    /\ ctx' = "canceled"
    /\ UNCHANGED <<req, pc, finalRT, pos, attempt, lastResp, lastErr, delay,
                   trace, hist, calls, transportCalls, origSends, result, execs>>
    /\ UNCHANGED cfgVars
    /\ UNCHANGED subVars

\* ---- custom DNS dialer (src/resolver.go) ---------------------------------------
MaxDNSServers == 2       \* at most this many servers in d.dnsServers
MaxIPs == 3              \* at most this many IPs in one DNS answer

SeqsUpTo(S, n) == UNION { [1..k -> S] : k \in 0..n }

\* dial targets: 0 is the original address, i >= 1 the i-th resolved IP
OrigAddr == 0
NoConn == 0 - 1
NoDialErr == [kind |-> "nil", target |-> 0]
DialErr(t) == [kind |-> "dial", target |-> t]
ErrNoIPs == [kind |-> "no-ips", target |-> 0]

\* what the environment does in one call of DialContext: whether the address
\* splits into host and port, which DNS servers accept a connection, what
\* the lookup answers (an error, or a list of IPs given by what dialling each
\* IP yields), and what the default dialer yields for the original address
\* (net.Dialer parses the address with the same SplitHostPort, so it cannot
\* connect to an address that does not split).
DialInputs ==
    { i \in [addrOK : BOOLEAN,
             dnsUp : SeqsUpTo(BOOLEAN, MaxDNSServers) \ {<<>>},
             lookup : [err : {TRUE}, ips : {<<>>}] \cup
                      [err : {FALSE}, ips : SeqsUpTo({"conn", "refuse"}, MaxIPs)],
             defaultDial : {"conn", "refuse"}] :
        i.addrOK \/ i.defaultDial = "refuse" }

NoDial == [pc |-> "off"]
DialStart(i) ==
    [in |-> i, pc |-> "idle", srv |-> 0, contacted |-> <<>>, ips |-> <<>>,
     idx |-> 0, firstDialErr |-> NoDialErr, dials |-> <<>>,
     conn |-> NoConn, err |-> NoDialErr]

\* d.defaultDialer.DialContext(ctx, network, target)
DefaultDialer(i, t) ==
    LET o == IF t = OrigAddr THEN i.defaultDial ELSE i.lookup.ips[t]
    IN  IF o = "conn" THEN [conn |-> t, err |-> NoDialErr]
        ELSE [conn |-> NoConn, err |-> DialErr(t)]

DialReturn(d, o) == [d EXCEPT !.pc = "done", !.conn = o.conn, !.err = o.err]

\* lines 20-25 with the result of SplitHostPort ignored
DialContextResolvesAnyway ==
    /\ dial.pc = "idle"
    /\ dial' = [dial EXCEPT !.pc = "resolve", !.srv = 1]
    /\ UNCHANGED <<doVars, timeout, dec, conc, bk, bufferPool>>

\* lines 20-25: split the address; an address that does not split goes to
\* the default dialer as it is
DialContext ==
    /\ dial.pc = "idle"
    /\ dial' = IF dial.in.addrOK
               THEN [dial EXCEPT !.pc = "resolve", !.srv = 1]
               ELSE DialReturn([dial EXCEPT !.dials = Append(@, OrigAddr)],
                               DefaultDialer(dial.in, OrigAddr))
    /\ UNCHANGED <<doVars, timeout, dec, conc, bk, bufferPool>>

\* lines 73-91 with the first server only: no other server is tried
ResolverDialFirstOnly ==
    /\ dial.pc = "resolve"
    /\ LET d == [dial EXCEPT !.contacted = Append(@, dial.srv)]
       IN  dial' = IF dial.in.dnsUp[dial.srv] THEN [d EXCEPT !.pc = "lookup"]
                   ELSE [d EXCEPT !.pc = "fallback"]
    /\ UNCHANGED <<doVars, timeout, dec, conc, bk, bufferPool>>

\* lines 73-91, the resolver's Dial: the servers are tried in order, the
\* first that accepts the connection is used; none accepting is a
\* resolution error
ResolverDial ==
    /\ dial.pc = "resolve"
    /\ LET d == [dial EXCEPT !.contacted = Append(@, dial.srv)]
       IN  dial' = IF dial.in.dnsUp[dial.srv] THEN [d EXCEPT !.pc = "lookup"]
                   ELSE IF dial.srv < Len(dial.in.dnsUp)
                        THEN [d EXCEPT !.srv = @ + 1]
                        ELSE [d EXCEPT !.pc = "fallback"]
    /\ UNCHANGED <<doVars, timeout, dec, conc, bk, bufferPool>>

\* line 96 and lines 28-30: the answer of the lookup
LookupIP ==
    /\ dial.pc = "lookup"
    /\ dial' = IF dial.in.lookup.err THEN [dial EXCEPT !.pc = "fallback"]
               ELSE [dial EXCEPT !.pc = "dial", !.ips = dial.in.lookup.ips,
                                 !.idx = 1]
    /\ UNCHANGED <<doVars, timeout, dec, conc, bk, bufferPool>>

\* lines 31-35 with the resolution error returned instead of falling back
FallbackReturnsResolveErr ==
    /\ dial.pc = "fallback"
    /\ dial' = DialReturn(dial, [conn |-> NoConn,
                                 err |-> [kind |-> "resolve", target |-> 0]])
    /\ UNCHANGED <<doVars, timeout, dec, conc, bk, bufferPool>>

\* lines 31-35: resolution failed, the default dialer gets the original address
FallbackDial ==
    /\ dial.pc = "fallback"
    /\ dial' = DialReturn([dial EXCEPT !.dials = Append(@, OrigAddr)],
                          DefaultDialer(dial.in, OrigAddr))
    /\ UNCHANGED <<doVars, timeout, dec, conc, bk, bufferPool>>

\* lines 50-52 keeping the error of the latest failure
KeepLastErr(first, e) == e

\* lines 50-52: only the first failure is kept
KeepFirstErr(first, e) == IF first = NoDialErr THEN e ELSE first

\* lines 40-56: one iteration of the loop over the resolved IPs
DialCandidate ==
    /\ dial.pc = "dial"
    /\ dial.idx <= Len(dial.ips)
    /\ LET o == DefaultDialer(dial.in, dial.idx)
           d == [dial EXCEPT !.dials = Append(@, dial.idx)]
       IN  dial' = IF o.conn # NoConn THEN DialReturn(d, o)
                   ELSE [d EXCEPT !.firstDialErr = KeepFirstErr(@, o.err),
                                  !.idx = @ + 1]
    /\ UNCHANGED <<doVars, timeout, dec, conc, bk, bufferPool>>

\* lines 58-63 reporting an empty answer as a failed dial of the address
LoopEndErrAsDialFailure(first) ==
    IF first = NoDialErr THEN DialErr(OrigAddr) ELSE first

\* lines 58-63: the error after the loop is the first dial error, or the
\* "no IP addresses were found" error when nothing was dialled
LoopEndErr(first) == IF first = NoDialErr THEN ErrNoIPs ELSE first

\* lines 58-63 handing an exhausted candidate list to the default dialer
DialLoopEndFallsBack ==
    /\ dial.pc = "dial"
    /\ dial.idx > Len(dial.ips)
    /\ dial' = DialReturn([dial EXCEPT !.dials = Append(@, OrigAddr)],
                          DefaultDialer(dial.in, OrigAddr))
    /\ UNCHANGED <<doVars, timeout, dec, conc, bk, bufferPool>>

\* lines 58-63: no candidate gave a connection
DialLoopEnd ==
    /\ dial.pc = "dial"
    /\ dial.idx > Len(dial.ips)
    /\ dial' = DialReturn(dial, [conn |-> NoConn,
                                 err |-> LoopEndErr(dial.firstDialErr)])
    /\ UNCHANGED <<doVars, timeout, dec, conc, bk, bufferPool>>

\* ---- the WithDNSResolver option (src/httpc.go) ------------------------------------
MaxOptions == 2          \* at most this many options passed to New

\* a server list is modelled by its length; what each server does when it
\* is contacted is part of DialInputs
ServerLists == 0..MaxDNSServers

\* the values c.dialer can have when New has built the client: nil in
\* src/httpc.go, whose struct literal (lines 376-387) leaves the field out,
\* the net.Dialer of New in src/unnamed/part_001 (line 434)
DialerFields == {"nil", "dialer"}

\* the dial function of the transport New builds (line 393) and no options
\* applied yet; dialer is c.dialer, defaultDialer the field of the
\* customDialer once one is installed
NewTransport(opts, dialer) ==
    [pc |-> "new", opts |-> opts, k |-> 1, DialContext |-> "dialer",
     dnsServers |-> 0, dialer |-> dialer, defaultDialer |-> "none"]

\* lines 209-229 without the early return for an empty list
WithDNSResolverAlways(c, servers) ==
    [c EXCEPT !.DialContext = "custom", !.dnsServers = servers,
              !.defaultDialer = c.dialer]

\* lines 209-229: an empty list is a no-op, any other list installs a
\* customDialer with these servers as the transport's dial function
WithDNSResolver(c, servers) ==
    IF servers = 0 THEN c
    ELSE [c EXCEPT !.DialContext = "custom", !.dnsServers = servers,
                   !.defaultDialer = c.dialer]

\* lines 415-422: New applies the options in the order given
ApplyOption ==
    /\ dial.pc = "new"
    /\ dial.k <= Len(dial.opts)
    /\ dial' = [WithDNSResolver(dial, dial.opts[dial.k]) EXCEPT !.k = @ + 1]
    /\ UNCHANGED <<doVars, timeout, dec, conc, bk, bufferPool>>

\* the configuration a call of the dial function keeps for the run
DialConfig(c) == [opts |-> c.opts, DialContext |-> c.DialContext]

\* the transport opens a connection with its dial function: the dialer of
\* New dials the address as it is, a customDialer runs DialContext of
\* src/resolver.go with its server list
TransportDial ==
    /\ dial.pc = "new"
    /\ dial.k > Len(dial.opts)
    /\ \E i \in DialInputs :
         IF dial.DialContext = "custom"
         THEN /\ Len(i.dnsUp) = dial.dnsServers
              /\ dial' = DialConfig(dial) @@ DialStart(i)
         ELSE dial' = DialConfig(dial) @@
                      DialReturn([DialStart(i) EXCEPT !.dials = <<OrigAddr>>],
                                 DefaultDialer(i, OrigAddr))
    /\ UNCHANGED <<doVars, timeout, dec, conc, bk, bufferPool>>

\* ---- the dial options of New (src/httpc.go) ---------------------------------------
defaultDialTimeout == 10000
defaultKeepAliveTimeout == 30000
\* arguments of WithDialTimeout and WithKeepAliveTimeout, in milliseconds
DialTimeouts == {5000}
KeepAlives == {15000}

ClientOptions ==
    [kind : {"WithDNSResolver"}, arg : ServerLists]
    \cup [kind : {"WithDialTimeout"}, arg : DialTimeouts]
    \cup [kind : {"WithKeepAliveTimeout"}, arg : KeepAlives]

\* lines 364-367: the net.Dialer New makes; the transport's DialContext is
\* its method (line 393) and c.dialer, when set, points to it
NetDialer == [Timeout |-> defaultDialTimeout, KeepAlive |-> defaultKeepAliveTimeout]

\* the client when New has built it: options not yet applied
ClientNew(opts, dialer) ==
    [netDialer |-> NetDialer, via |-> "none", dialTimeout |-> 0] @@
    [NewTransport(opts, dialer) EXCEPT !.pc = "opts"]

\* a nil pointer is dereferenced: the goroutine panics
Panic(c) == [c EXCEPT !.pc = "panic"]

\* lines 151-158: c.dialer.Timeout = dialTimeout, then the transport's dial
\* function is set to c.dialer.DialContext
WithDialTimeout(c, t) ==
    IF c.dialer = "nil" THEN Panic(c)
    ELSE [c EXCEPT !.netDialer.Timeout = t, !.DialContext = "dialer"]

\* lines 161-168
WithKeepAliveTimeout(c, t) ==
    IF c.dialer = "nil" THEN Panic(c)
    ELSE [c EXCEPT !.netDialer.KeepAlive = t, !.DialContext = "dialer"]

ApplyTo(c, o) ==
    IF o.kind = "WithDNSResolver" THEN WithDNSResolver(c, o.arg)
    ELSE IF o.kind = "WithDialTimeout" THEN WithDialTimeout(c, o.arg)
    ELSE WithKeepAliveTimeout(c, o.arg)

\* lines 415-422: New applies the options in the order given
ApplyClientOption ==
    /\ dial.pc = "opts"
    /\ dial.k <= Len(dial.opts)
    /\ dial' = [ApplyTo(dial, dial.opts[dial.k]) EXCEPT !.k = @ + 1]
    /\ UNCHANGED <<doVars, timeout, dec, conc, bk, bufferPool>>

\* the transport of the finished client opens a connection with its dial
\* function.  A customDialer calls its defaultDialer on every path of
\* DialContext but the one of an empty answer (src/resolver.go:58-61);
\* usesDefault says whether this call takes such a path.
ClientDial(usesDefault) ==
    /\ dial.pc = "opts"
    /\ dial.k > Len(dial.opts)
    /\ dial' =
         IF dial.DialContext = "dialer"
         THEN [dial EXCEPT !.pc = "dialed", !.via = "dialer",
                           !.dialTimeout = dial.netDialer.Timeout]
         ELSE IF ~usesDefault
         THEN [dial EXCEPT !.pc = "dialed", !.via = "custom"]
         ELSE IF dial.defaultDialer = "nil" THEN Panic(dial)
         ELSE [dial EXCEPT !.pc = "dialed", !.via = "custom",
                           !.dialTimeout = dial.netDialer.Timeout]
    /\ UNCHANGED <<doVars, timeout, dec, conc, bk, bufferPool>>

\* ---- response methods on an error status (decode*Response, errorResponse) ------
maxErrorBodyRead == 1024
maxDiscardSize == 65536

ResponseMethods == {"Text", "Bytes", "DecodeJSON", "DecodeXML", "DecodeGOB"}
DecodeStatuses == {200, 400, 404, 503}
BodyLens == {0, 5, 1024, 1025, 70000}
\* resp.Header, as the list of values of one key
Headers == { <<>>, <<"v1", "v2">> }
\* the i-th byte of a response body
BodyByte(i) == (i % 7) + 1

\* the response a method got from Execute with a nil error; its body is
\* closed already when the retry loop gave up for want of GetBody
DecodeInputs ==
    [method : ResponseMethods, status : DecodeStatuses, bodyLen : BodyLens,
     body : {"open", "closed"}, header : Headers]

NoDecode == [pc |-> "off"]
NoOut == [kind |-> "none", StatusCode |-> 0, Header |-> <<>>,
          Body |-> [ref |-> "own", len |-> 0, bytes |-> <<>>]]
\* pool is the backing array of the pooled buffer, holding what its last user
\* wrote; header is resp.Header
DecodeStart(i) ==
    [in |-> i, pc |-> "idle", pool |-> <<9, 9, 9>>, header |-> i.header,
     consumed |-> 0, out |-> NoOut, reused |-> FALSE, mutated |-> FALSE]

\* lines 1214-1215 without the copy: the preview is the buffer's own bytes
PreviewAliasesBuffer(buf) == [ref |-> "buf", len |-> Len(buf), bytes |-> <<>>]

\* lines 1214-1215: bodyBytes := make([]byte, buf.Len()); copy(bodyBytes, buf.Bytes())
PreviewCopy(buf) == [ref |-> "own", len |-> Len(buf), bytes |-> buf]

\* lines 1218-1223: a new map with a new slice per key
HeaderCopy(h) == [k \in DOMAIN h |-> h[k]]

\* errorResponse: Get (and Reset) a pooled buffer, read at most
\* maxErrorBodyRead bytes of the body into it, discard at most maxDiscardSize
\* more, build the HTTPError from copies, Put the buffer back
errorResponse(d) ==
    LET avail == IF d.in.body = "open" THEN d.in.bodyLen ELSE 0
        n1 == IF avail < maxErrorBodyRead THEN avail ELSE maxErrorBodyRead
        n2 == IF avail - n1 < maxDiscardSize THEN avail - n1 ELSE maxDiscardSize
        buf == [k \in 1..n1 |-> BodyByte(k)]
    IN  [d EXCEPT !.pool = [k \in 1..(IF n1 > Len(@) THEN n1 ELSE Len(@)) |->
                               IF k <= n1 THEN buf[k] ELSE @[k]],
                  !.consumed = n1 + n2,
                  !.out = [kind |-> "HTTPError", StatusCode |-> d.in.status,
                           Header |-> HeaderCopy(d.header),
                           Body |-> PreviewCopy(buf)]]

\* decodeJSONResponse .. decodeBytesResponse: all five start with the same
\* status check; below 400 the body is read and decoded, which fails or not
decodeResponse ==
    /\ dec.pc = "idle"
    /\ \/ /\ dec.in.status >= 400
          /\ dec' = [errorResponse(dec) EXCEPT !.pc = "returned"]
       \/ /\ dec.in.status < 400
          /\ \E k \in {"value", "ErrDecodeResponse"} :
                /\ dec.in.body = "closed" => k = "ErrDecodeResponse"
                /\ dec' = [dec EXCEPT !.pc = "returned", !.out.kind = k,
                              !.consumed = IF dec.in.body = "open"
                                           THEN dec.in.bodyLen ELSE 0]
    /\ UNCHANGED <<doVars, timeout, dial, conc, bk, bufferPool>>

\* lines 567-568 and the like: a later user Gets the buffer, which resets it,
\* and writes its own bytes into the same backing array
PoolReuse ==
    /\ dec.pc = "returned" /\ ~dec.reused
    /\ dec' = [dec EXCEPT !.reused = TRUE,
                  !.pool = [k \in 1..(IF Len(@) < 3 THEN 3 ELSE Len(@)) |->
                               IF k <= 3 THEN 0 ELSE @[k]]]
    /\ UNCHANGED <<doVars, timeout, dial, conc, bk, bufferPool>>

\* the holder of the response changes resp.Header after the method returned
HeaderMutate ==
    /\ dec.pc = "returned" /\ ~dec.mutated
    /\ dec' = [dec EXCEPT !.mutated = TRUE, !.header = <<"changed">> \o @]
    /\ UNCHANGED <<doVars, timeout, dial, conc, bk, bufferPool>>

\* the bytes a reader of HTTPError.Body sees
ErrBody(d) ==
    IF d.out.Body.ref = "own" THEN d.out.Body.bytes
    ELSE [k \in 1..d.out.Body.len |-> d.pool[k]]

\* ---- two requests on one client -------------------------------------------------
\* Each call of the retry handler has its own attempt, lastResp and lastErr
\* (locals of the closure, lines 739-749); c.retryOpts is the one thing the
\* calls share.  Contexts stay live and the chain is retry + transport.
ReqIds == {1, 2}
ConcPolicies ==
    { [defaultRetryOptions EXCEPT !.MaxAttempts = n] : n \in 0..MaxRetries }
ConcOutcomes ==
    { [resp |-> [status |-> s, retryAfter |-> NoHeader, body |-> "open"],
       err |-> NilErr] : s \in {200, 503} }
    \cup { [resp |-> NoResp, err |-> e] : e \in {<<"NetRefused">>, <<"Other">>} }

NoConc == [i \in ReqIds |-> [pc |-> "off"]]
ConcStart ==
    [i \in ReqIds |->
        [req |-> [hasBody |-> FALSE, GetBody |-> "nil"], retry |-> FALSE,
         pc |-> "idle", attempt |-> 0, lastResp |-> NoResp, lastErr |-> NilErr,
         hist |-> <<>>, result |-> NoResult]]

ConcReturn(c, resp, err, at) ==
    [c EXCEPT !.pc = "done", !.result = [resp |-> resp, err |-> err, at |-> at]]

\* lines 819-822
ConcExit(c, resp, err, at) ==
    ConcReturn(c, resp, IF err # NilErr THEN wrapError(err) ELSE NilErr, at)

\* Client.Do for request i: the retry layer is installed when MaxAttempts > 0
ConcDo(i, r) ==
    /\ conc[i].pc = "idle"
    /\ conc' = [conc EXCEPT ![i] =
                  [@ EXCEPT !.req = r, !.retry = retryOpts.MaxAttempts > 0,
                            !.pc = IF retryOpts.MaxAttempts > 0 THEN "loop"
                                   ELSE "inflight"]]
    /\ UNCHANGED <<doVars, timeout, dial, dec, bk, bufferPool>>

\* lines 749-784 for request i: head of one loop iteration
ConcLoop(i) ==
    /\ conc[i].pc = "loop"
    /\ LET c == conc[i]
       IN  conc' = [conc EXCEPT ![i] =
             IF c.attempt > retryOpts.MaxAttempts
               THEN ConcExit(c, c.lastResp, c.lastErr, "loop-end")
             ELSE IF BodyNotReusable(c.attempt, c.req)
               THEN ConcExit(c, c.lastResp, c.lastErr, "getbody-nil")
             ELSE IF c.attempt > 0 /\ c.req.GetBody = "err"
               THEN ConcReturn([c EXCEPT !.lastResp = CloseBody(@)], NoResp,
                               <<"GetBodyFailed", "GetBodyErr">>, "getbody-err")
             ELSE [c EXCEPT !.pc = "inflight"]]
    /\ UNCHANGED <<doVars, timeout, dial, dec, bk, bufferPool>>

\* lines 785-808 for request i: its round trip ends and the handler decides
ConcTransportReturn(i) ==
    /\ conc[i].pc = "inflight"
    /\ \E o \in ConcOutcomes :
        LET c == [conc[i] EXCEPT !.hist = Append(@, HistEntry(o))]
        IN  conc' = [conc EXCEPT ![i] =
              IF ~c.retry
                THEN ConcReturn([c EXCEPT !.lastResp = o.resp, !.lastErr = o.err],
                                o.resp, o.err, "direct")
              ELSE IF ~shouldRetry(retryOpts, o.resp, o.err)
                THEN ConcExit([c EXCEPT !.lastResp = o.resp, !.lastErr = o.err],
                              o.resp, o.err, "not-retryable")
              ELSE IF LastAttempt(retryOpts, c.attempt)
                THEN ConcExit([c EXCEPT !.lastResp = o.resp,
                                        !.lastErr = ExhaustedErr(o.err)],
                              o.resp, ExhaustedErr(o.err), "exhausted")
              ELSE [c EXCEPT !.lastErr = o.err,
                             !.lastResp = IF o.resp # NoResp
                                          THEN [o.resp EXCEPT !.body = "drained"]
                                          ELSE o.resp,
                             !.pc = "wait"]]
    /\ UNCHANGED <<doVars, timeout, dial, dec, bk, bufferPool>>

\* line 749 with attempt kept in one place for all calls of the handler
NextAttemptShared(cs, i) ==
    [j \in ReqIds |->
        IF j = i THEN [cs[j] EXCEPT !.attempt = cs[i].attempt + 1, !.pc = "loop"]
        ELSE [cs[j] EXCEPT !.attempt = cs[i].attempt + 1]]

\* line 749, attempt++ on the loop variable of this call
NextAttempt(cs, i) ==
    [cs EXCEPT ![i] = [@ EXCEPT !.attempt = @ + 1, !.pc = "loop"]]

\* lines 811-816 for request i, the timer case
ConcWaitTimer(i) ==
    /\ conc[i].pc = "wait"
    /\ conc' = NextAttempt(conc, i)
    /\ UNCHANGED <<doVars, timeout, dial, dec, bk, bufferPool>>

\* ---- the backoff delay as a function of the attempt index ---------------------
MaxBackoffAttempt == 66  \* attempt indices 0..MaxBackoffAttempt are computed
\* policies without jitter and with 0 < BaseDelay <= MaxDelay
BackoffPolicies ==
    { p \in RetryPolicies :
        ~p.Jitter /\ p.MaxAttempts = MaxRetries /\ p.BaseDelay <= p.MaxDelay }

NoBackoff == [pc |-> "off"]
\* delay is the value returned for attempt, prev the one for attempt - 1
BackoffAt(p, att) ==
    [opts |-> p, attempt |-> att,
     delay |-> backoff64(ToInt64(p.BaseDelay * NsPerMs),
                         ToInt64(p.MaxDelay * NsPerMs), att),
     prev |-> backoff64(ToInt64(p.BaseDelay * NsPerMs),
                        ToInt64(p.MaxDelay * NsPerMs),
                        IF att = 0 THEN 0 ELSE att - 1)]

\* line 800 on the next iteration of the retry loop: the attempt index has
\* grown by one
BackoffNext ==
    /\ bk.attempt < MaxBackoffAttempt
    /\ bk' = BackoffAt(bk.opts, bk.attempt + 1)
    /\ UNCHANGED <<doVars, timeout, dial, dec, conc, bufferPool>>

\* ---- request bodies built in pooled buffers (Set*Body, defaultPool) ---------------
MaxBuffers == 2          \* at most this many buffers ever made by the pool
MaxBuilders == 2         \* request builders using the client

Buffers == 1..MaxBuffers
Builders == 1..MaxBuilders
\* the values given to Set*Body
BodyValues == {1, 2}
\* the encoder's output for a value: v + 1 bytes, different for each value
Encode(v) == [k \in 1..(v + 1) |-> 10 * v + k]
\* bytes an error preview copies into its buffer
PreviewBytes == { <<7>>, <<8, 8, 8>> }
\* the bytes of a backing array never written
FreshArray == <<0, 0, 0>>

\* buf.Reset() followed by writes of bs: the bytes go to the front of the
\* backing array, which keeps what lay behind them (every write here fits
\* the capacity of defaultBufferSize, so no array is reallocated)
WriteFront(mem, bs) ==
    [k \in 1..Len(mem) |-> IF k <= Len(bs) THEN bs[k] ELSE mem[k]]

NoPool == [pc |-> "off"]
NoBody == [pc |-> "new", v |-> 0, buf |-> 0, len |-> 0, sent |-> <<>>]
\* mem[k] is the backing array of buffer k, out[k] says that a caller holds
\* it between Get and Put, rb[b] is request builder b
PoolStart ==
    [pc |-> "on", mem |-> [k \in Buffers |-> FreshArray],
     out |-> [k \in Buffers |-> FALSE], rb |-> [b \in Builders |-> NoBody]]

\* lines 110-114: sync.Pool hands out a buffer nobody holds, one put back
\* earlier or a new one
PoolGet(p, k) == ~p.out[k]

\* SetJSONBody / SetXMLBody / SetGOBBody up to the return statement: Get,
\* encode into the buffer, rb.body = bytes.NewReader(buf.Bytes()), a reader
\* over the buffer's own backing array
SetBodyEncode(b, v, k) ==
    /\ bufferPool.pc = "on"
    /\ bufferPool.rb[b].pc = "new"
    /\ PoolGet(bufferPool, k)
    /\ bufferPool' = [bufferPool EXCEPT
            !.out[k] = TRUE,
            !.mem[k] = WriteFront(@, Encode(v)),
            !.rb[b] = [pc |-> "encoded", v |-> v, buf |-> k,
                       len |-> Len(Encode(v)), sent |-> <<>>]]
    /\ UNCHANGED <<doVars, timeout, dial, dec, conc, bk>>

\* the deferred bufferPool.Put(buf) of Set*Body (lines 116-121; the
\* capacity is below the limit of Put)
SetBodyPut(b) ==
    /\ bufferPool.pc = "on"
    /\ bufferPool.rb[b].pc = "encoded"
    /\ bufferPool' = [bufferPool EXCEPT !.out[bufferPool.rb[b].buf] = FALSE,
                                       !.rb[b].pc = "set"]
    /\ UNCHANGED <<doVars, timeout, dial, dec, conc, bk>>

\* errorResponse, lines 1182-1215: Get, copy the preview into the buffer,
\* copy it out again, Put
ErrorPreview(k, bs) ==
    /\ bufferPool.pc = "on"
    /\ PoolGet(bufferPool, k)
    /\ bufferPool' = [bufferPool EXCEPT !.mem[k] = WriteFront(@, bs)]
    /\ UNCHANGED <<doVars, timeout, dial, dec, conc, bk>>

\* the transport reads the request body: the reader yields the first len
\* bytes of the array it was made over, as they are now
ReadBody(b) ==
    /\ bufferPool.pc = "on"
    /\ bufferPool.rb[b].pc = "set"
    /\ bufferPool' = [bufferPool EXCEPT
            !.rb[b].pc = "read",
            !.rb[b].sent = SubSeq(bufferPool.mem[bufferPool.rb[b].buf], 1,
                                  bufferPool.rb[b].len)]
    /\ UNCHANGED <<doVars, timeout, dial, dec, conc, bk>>

\* ---- specifications ---------------------------------------------------------------
Init ==
    /\ New
    /\ timeout = 0
    /\ dial = NoDial
    /\ dec = NoDecode
    /\ conc = NoConc
    /\ bk = NoBackoff
    /\ bufferPool = NoPool

Next ==
    \/ \E opts \in RetryPolicies : SetRetryOptions(opts)
    \/ SetDumpLogFunc
    \/ WithMiddleware
    \/ \E r \in Requests, c \in CtxStates : Do(r, c)
    \/ RetryEnter
    \/ RetryLoop
    \/ LogRoundTrip
    \/ MiddlewareRoundTrip
    \/ TransportSend
    \/ TransportReturn
    \/ WaitTimer
    \/ WaitCtxDone
    \/ CtxDeadline
    \/ CtxCancel

Spec == Init /\ [][Next]_vars

\* requests executed through Text, Bytes or a Decode method, which act on what
\* Do returned
NextMethods ==
    \/ Next
    \/ ResponseMethod

SpecMethods == Init /\ [][NextMethods]_vars

\* a client with a timeout executing requests whose context never ends; the
\* goroutine running Do takes its steps and the backoff timer fires, but
\* nothing obliges the server to answer
NextTimeout ==
    \/ \E t \in Timeouts : SetTimeout(t)
    \/ \E r \in Requests : Do(r, "live")
    \/ RetryEnter
    \/ RetryLoop
    \/ TransportSend
    \/ TransportReturn
    \/ WaitTimer

SpecTimeout ==
    /\ Init /\ [][NextTimeout]_vars
    /\ WF_vars(RetryEnter) /\ WF_vars(RetryLoop)
    /\ WF_vars(TransportSend) /\ WF_vars(WaitTimer)

\* one call of customDialer.DialContext, for every behaviour of the DNS
\* servers, of the resolved IPs and of the default dialer
InitDial ==
    /\ New
    /\ timeout = 0
    /\ dial \in { DialStart(i) : i \in DialInputs }
    /\ dec = NoDecode
    /\ conc = NoConc
    /\ bk = NoBackoff
    /\ bufferPool = NoPool

NextDial ==
    \/ DialContext
    \/ ResolverDial
    \/ LookupIP
    \/ FallbackDial
    \/ DialCandidate
    \/ DialLoopEnd

SpecDial == InitDial /\ [][NextDial]_vars

\* New with a list of WithDNSResolver options, then one connection opened
\* by the transport, for a client whose dialer field is set
InitOption ==
    /\ New
    /\ timeout = 0
    /\ dial \in { NewTransport(o, "dialer") :
                    o \in SeqsUpTo(ServerLists, MaxOptions) }
    /\ dec = NoDecode
    /\ conc = NoConc
    /\ bk = NoBackoff
    /\ bufferPool = NoPool

NextOption ==
    \/ ApplyOption
    \/ TransportDial
    \/ NextDial

SpecOption == InitOption /\ [][NextOption]_vars

\* New with a list of dial and resolver options, for both values c.dialer
\* can have, then one connection opened by the transport
InitClientOptions ==
    /\ New
    /\ timeout = 0
    /\ dial \in { ClientNew(o, d) : o \in SeqsUpTo(ClientOptions, MaxOptions),
                                   d \in DialerFields }
    /\ dec = NoDecode
    /\ conc = NoConc
    /\ bk = NoBackoff
    /\ bufferPool = NoPool

NextClientOptions ==
    \/ ApplyClientOption
    \/ \E u \in BOOLEAN : ClientDial(u)

SpecClientOptions == InitClientOptions /\ [][NextClientOptions]_vars

\* one call of a response method that got a response and a nil error
InitDecode ==
    /\ New
    /\ timeout = 0
    /\ dial = NoDial
    /\ dec \in { DecodeStart(i) : i \in DecodeInputs }
    /\ conc = NoConc
    /\ bk = NoBackoff
    /\ bufferPool = NoPool

NextDecode ==
    \/ decodeResponse
    \/ PoolReuse
    \/ HeaderMutate

SpecDecode == InitDecode /\ [][NextDecode]_vars

\* two requests started on one client in any order, their steps interleaved
InitConc ==
    /\ \E opts \in ConcPolicies : NewWith(opts)
    /\ timeout = 0
    /\ dial = NoDial
    /\ dec = NoDecode
    /\ conc = ConcStart
    /\ bk = NoBackoff
    /\ bufferPool = NoPool

NextConc ==
    \E i \in ReqIds :
        \/ \E r \in Requests : ConcDo(i, r)
        \/ ConcLoop(i)
        \/ ConcTransportReturn(i)
        \/ ConcWaitTimer(i)

SpecConc == InitConc /\ [][NextConc]_vars

\* calculateExponentialBackoff applied to attempt 0, 1, 2, ... under each
\* policy without jitter
InitBackoff ==
    /\ New
    /\ timeout = 0
    /\ dial = NoDial
    /\ dec = NoDecode
    /\ conc = NoConc
    /\ bk \in { BackoffAt(p, 0) : p \in BackoffPolicies }
    /\ bufferPool = NoPool

NextBackoff == BackoffNext

SpecBackoff == InitBackoff /\ [][NextBackoff]_vars

\* request builders encoding bodies in pooled buffers while error previews
\* use the same pool
InitPool ==
    /\ New
    /\ timeout = 0
    /\ dial = NoDial
    /\ dec = NoDecode
    /\ conc = NoConc
    /\ bk = NoBackoff
    /\ bufferPool = PoolStart

NextPool ==
    \/ \E b \in Builders, v \in BodyValues, k \in Buffers : SetBodyEncode(b, v, k)
    \/ \E b \in Builders : SetBodyPut(b)
    \/ \E k \in Buffers, bs \in PreviewBytes : ErrorPreview(k, bs)
    \/ \E b \in Builders : ReadBody(b)

SpecPool == InitPool /\ [][NextPool]_vars

\* a client made with one retry whose policy is set again while a request
\* is being executed
StartPolicy == [defaultRetryOptions EXCEPT !.MaxAttempts = 1]
ReconfigPolicies ==
    { [defaultRetryOptions EXCEPT !.MaxAttempts = n, !.BaseDelay = d] :
        n \in 0..MaxRetries, d \in BaseDelays }

InitReconfig ==
    /\ NewWith(StartPolicy)
    /\ timeout = 0
    /\ dial = NoDial
    /\ dec = NoDecode
    /\ conc = NoConc
    /\ bk = NoBackoff
    /\ bufferPool = NoPool

NextReconfig ==
    \/ \E opts \in ReconfigPolicies : SetRetryOptionsInFlight(opts)
    \/ \E r \in Requests, c \in CtxStates : Do(r, c)
    \/ RetryEnter
    \/ RetryLoop
    \/ TransportSend
    \/ TransportReturn
    \/ WaitTimer
    \/ WaitCtxDone
    \/ CtxDeadline
    \/ CtxCancel

SpecReconfig == InitReconfig /\ [][NextReconfig]_vars

\* requests executed under a policy that is not changed, by a goroutine that
\* keeps taking its steps, with a transport that returns from every round
\* trip and a timer that fires
InitTerminates ==
    /\ \E opts \in RetryPolicies : NewWith(opts)
    /\ timeout = 0
    /\ dial = NoDial
    /\ dec = NoDecode
    /\ conc = NoConc
    /\ bk = NoBackoff
    /\ bufferPool = NoPool

NextTerminates ==
    \/ \E r \in Requests, c \in CtxStates : Do(r, c)
    \/ RetryEnter
    \/ RetryLoop
    \/ TransportSend
    \/ TransportReturn
    \/ WaitTimer
    \/ WaitCtxDone
    \/ CtxDeadline
    \/ CtxCancel

\* a step of the goroutine that runs Do, the return of a round trip and the
\* end of a wait included; at most one position of the goroutine is enabled
\* at a time
DoStep ==
    \/ RetryEnter
    \/ RetryLoop
    \/ TransportSend
    \/ TransportReturn
    \/ WaitTimer
    \/ WaitCtxDone

SpecTerminates ==
    InitTerminates /\ [][NextTerminates]_vars /\ WF_vars(DoStep)

\* ---- properties ------------------------------------------------------------------
\* an outcome seen by the retry loop that is an error-free response whose
\* status is in retryableStatuses
RetryableStatusEntry(e) == e.err = NilErr /\ e.status \in retryOpts.RetryStatuses

\* an error-free response whose status is outside retryableStatuses
FinalStatusEntry(e) == e.err = NilErr /\ e.status \notin retryOpts.RetryStatuses

\* the request may be re-sent: no body, or a body with a working GetBody
ReSendable(r) == (~r.hasBody /\ r.GetBody = "nil") \/ r.GetBody = "ok"

\* C1: a re-sendable request whose every attempt returns a retryable status
\* makes exactly MaxAttempts+1 round trips and ends with max-retries-exceeded
\* (the context staying live).
C1_ExhaustsAfterNPlus1 ==
    ( /\ pc = "done" /\ ctx = "live" /\ ReSendable(req)
      /\ hist # <<>>
      /\ \A i \in 1..Len(hist) : RetryableStatusEntry(hist[i]) )
    => ( /\ transportCalls = retryOpts.MaxAttempts + 1
         /\ ErrorsIs(result.err, "ErrMaxRetriesExceeded") )

\* C2: a request with a body and a nil GetBody, under MaxAttempts > 0, never
\* makes a second call to the next handler and never sends its body twice; once
\* Do has returned after a first attempt, exactly one call was made.
C2_BodyWithoutGetBodyOnce ==
    ( req.hasBody /\ req.GetBody = "nil" /\ retryOpts.MaxAttempts > 0 /\ execs > 0 )
    => ( /\ calls <= 1 /\ transportCalls <= 1 /\ origSends <= 1
         /\ (pc = "done" /\ result.at # "ctx-check")
              => (calls = 1 /\ transportCalls = 1 /\ origSends = 1) )

C2_Witness ==
    /\ pc = "done" /\ req.hasBody /\ req.GetBody = "nil"
    /\ retryOpts.MaxAttempts = 2
    /\ result.at = "getbody-nil"
    /\ Len(hist) = 1 /\ RetryableStatusEntry(hist[1])

\* C3: with a regenerable body, when the first k <= MaxAttempts outcomes are
\* retryable statuses and outcome k+1 is a status outside the set, Do has
\* returned after exactly k+1 round trips with that response and a nil error.
C3_StopsAtFirstFinalStatus ==
    \A k \in 0..retryOpts.MaxAttempts :
        ( /\ req.GetBody = "ok"
          /\ Len(hist) > k
          /\ \A i \in 1..k : RetryableStatusEntry(hist[i])
          /\ FinalStatusEntry(hist[k + 1]) )
        => ( /\ pc = "done"
             /\ Len(hist) = k + 1
             /\ transportCalls = k + 1
             /\ result.err = NilErr
             /\ result.resp.status = hist[k + 1].status
             /\ result.resp.body = "open" )

C3_Witness ==
    /\ pc = "done" /\ req.GetBody = "ok" /\ req.hasBody
    /\ Len(hist) = 3
    /\ hist[1].status = 503 /\ hist[2].status = 503 /\ hist[3].status = 200
    /\ result.resp.status = 200 /\ result.err = NilErr

\* C4: with MaxAttempts = 0 there is no retry layer: an execution makes at most
\* one round trip, and when Do has returned it made exactly one and handed the
\* transport's response and error to the caller unchanged.
C4_NoRetryAtZero ==
    ( retryOpts.MaxAttempts = 0 /\ execs > 0 )
    => ( /\ transportCalls <= 1
         /\ calls = 0
         /\ pc = "done"
              => ( /\ transportCalls = 1 /\ Len(hist) = 1
                   /\ result.err = hist[1].err
                   /\ result.resp.status = hist[1].status ) )

C4_Witness ==
    /\ pc = "done" /\ execs = 2 /\ retryOpts.MaxAttempts = 0
    /\ Len(hist) = 1 /\ RetryableStatusEntry(hist[1])
    /\ transportCalls = 1


\* the pre-delegation events of user middlewares, in the order they ran
MwEvents(t) == SelectSeq(t, LAMBDA e : e.kind = "mw")

\* C5: when the base transport is entered, the middlewares have run in reverse
\* registration order: the last-registered first, the first-registered last.
C5_FirstRegisteredInnermost ==
    pc = "inflight"
    => LET ev == MwEvents(trace)
       IN  /\ Len(ev) = Len(middlewares)
           /\ \A i \in 1..Len(ev) : ev[i].id = middlewares[Len(ev) - i + 1]

DeadlineEnded ==
    /\ pc = "done" /\ ctx = "deadline"
    /\ \/ result.at \in {"ctx-check", "ctx-wait"}
       \/ /\ result.at \in {"not-retryable", "exhausted", "direct"}
          /\ hist # <<>>
          /\ hist[Len(hist)].err = <<"DeadlineExceeded">>

\* C7: a request ended by the expiry of its context deadline returns an error
\* matching ErrRequestTimeout and not ErrMaxRetriesExceeded.
C7_DeadlineIsTimeout ==
    DeadlineEnded
    => ( /\ ErrorsIs(result.err, "ErrRequestTimeout")
         /\ ~ErrorsIs(result.err, "ErrMaxRetriesExceeded") )

\* C8: on exhaustion after a transport error e, the returned error matches
\* ErrMaxRetriesExceeded and e is reachable from it.
C8_ExhaustedWrapsLastError ==
    ( /\ pc = "done" /\ result.at = "exhausted"
      /\ hist[Len(hist)].err # NilErr )
    => ( /\ ErrorsIs(result.err, "ErrMaxRetriesExceeded")
         /\ ErrorsIs(result.err, Head(hist[Len(hist)].err)) )

\* no usable Retry-After: no response, header absent, invalid or a past date
NoUsableRetryAfter(resp) ==
    \/ resp = NoResp
    \/ resp.retryAfter.kind \in {"none", "bad"}
    \/ resp.retryAfter.kind = "date" /\ resp.retryAfter.v <= 0

MinOf(a, b) == IF a < b THEN a ELSE b

\* C9: without jitter and without a usable Retry-After, the wait after attempt
\* k is min(BaseDelay * 2^k, MaxDelay), after a network error and after a
\* retryable status alike.
C9_BackoffWithoutHeader ==
    ( pc = "wait" /\ ~retryOpts.Jitter /\ NoUsableRetryAfter(lastResp) )
    => delay = MinOf(retryOpts.BaseDelay * Pow2(attempt), retryOpts.MaxDelay)

\* C10: after a retryable 429 whose Retry-After is a positive integer s, the
\* wait is s seconds, whatever the policy and the attempt index.
C10_RetryAfterSeconds ==
    ( /\ pc = "wait" /\ lastResp.status = 429
      /\ lastResp.retryAfter.kind = "int" /\ lastResp.retryAfter.v > 0 )
    => delay = lastResp.retryAfter.v * 1000

C10_Witness ==
    /\ pc = "wait" /\ lastResp.status = 429
    /\ lastResp.retryAfter = [kind |-> "int", v |-> 2]
    /\ attempt = 1 /\ retryOpts.Jitter /\ retryOpts.BaseDelay = 600
    /\ delay = 2000 /\ delay > retryOpts.MaxDelay

\* C11: when the context is cancelled or its deadline fires during a backoff
\* wait, the next step of Do is the return of (nil, cancellation error): the
\* timer is not waited for and no handler is called again.
C11_CancelDuringWait ==
    [][ (pc = "wait" /\ ctx # "live")
        => /\ pc' = "done"
           /\ result'.at = "ctx-wait"
           /\ result'.resp = NoResp
           /\ ctx = "canceled" => result'.err = <<"Canceled">>
           /\ ctx = "deadline" => ErrorsIs(result'.err, "ErrRequestTimeout")
           /\ calls' = calls /\ transportCalls' = transportCalls
           /\ trace' = trace ]_vars

C11_Witness ==
    /\ pc = "done" /\ result.at = "ctx-wait" /\ ctx = "canceled"
    /\ result.resp = NoResp /\ result.err = <<"Canceled">>
    /\ delay = 2000 /\ transportCalls = 1 /\ retryOpts.MaxAttempts = 2

\* custom resolution fails: no configured server accepts a connection, or the
\* lookup answers with an error
ResolutionFails(i) ==
    \/ \A k \in DOMAIN i.dnsUp : ~i.dnsUp[k]
    \/ i.lookup.err

\* C12: when custom resolution fails, DialContext calls the default dialer
\* exactly once, with the original address, dials no resolved IP and returns
\* what the default dialer returned.
C12_FallbackOnResolveFailure ==
    (dial.pc = "done" /\ dial.in.addrOK /\ ResolutionFails(dial.in))
    => /\ dial.dials = <<OrigAddr>>
       /\ IF dial.in.defaultDial = "conn"
          THEN dial.conn = OrigAddr /\ dial.err = NoDialErr
          ELSE dial.conn = NoConn /\ dial.err = DialErr(OrigAddr)

C12_Witness ==
    /\ dial.pc = "done" /\ dial.in.addrOK
    /\ dial.in.dnsUp = <<FALSE, FALSE>> /\ dial.contacted = <<1, 2>>
    /\ dial.in.defaultDial = "conn"
    /\ dial.dials = <<OrigAddr>> /\ dial.conn = OrigAddr

\* C13 as claimed: whenever the default dialer would connect to the address,
\* DialContext returns a connection, whether the custom servers are
\* unreachable, answer with an error, or answer with IPs.
C13_NeverSinglePointOfFailure ==
    ( /\ dial.pc = "done" /\ dial.in.defaultDial = "conn"
      /\ ResolutionFails(dial.in) \/ Len(dial.in.lookup.ips) > 0 )
    => dial.conn # NoConn

\* C13 amended: the default dialer is the fallback of a failed resolution
\* only.  Once the lookup has answered, the outcome is decided by the
\* resolved IPs alone and the original address is never dialled.
C13_FallbackOnlyOnResolveFailure ==
    (dial.pc = "done" /\ dial.in.addrOK)
    => IF ResolutionFails(dial.in)
       THEN dial.in.defaultDial = "conn" => dial.conn = OrigAddr
       ELSE /\ dial.conn # NoConn
               <=> \E k \in DOMAIN dial.ips : dial.ips[k] = "conn"
            /\ \A k \in DOMAIN dial.dials : dial.dials[k] # OrigAddr

C13_Witness ==
    /\ dial.pc = "done"
    /\ dial.in.dnsUp = <<FALSE, TRUE>> /\ dial.in.lookup.err
    /\ dial.in.defaultDial = "conn"
    /\ dial.conn = OrigAddr /\ dial.err = NoDialErr

\* C14: a non-empty answer is dialled in the order returned, up to and
\* including the first IP that connects, whose connection is returned; when
\* none connects the error returned is that of the first IP.
C14_CandidatesInOrder ==
    ( /\ dial.pc = "done" /\ dial.in.addrOK /\ ~ResolutionFails(dial.in)
      /\ Len(dial.in.lookup.ips) > 0 )
    => LET ips == dial.in.lookup.ips
           ok == { k \in DOMAIN ips : ips[k] = "conn" }
           first == CHOOSE k \in ok : \A j \in ok : k <= j
       IN  IF ok = {}
           THEN /\ dial.dials = [k \in DOMAIN ips |-> k]
                /\ dial.conn = NoConn /\ dial.err = DialErr(1)
           ELSE /\ dial.dials = [k \in 1..first |-> k]
                /\ dial.conn = first /\ dial.err = NoDialErr

C14_Witness ==
    /\ dial.pc = "done" /\ dial.in.lookup.ips = <<"refuse", "refuse">>
    /\ dial.dials = <<1, 2>>
    /\ dial.conn = NoConn /\ dial.err = DialErr(1)

\* C15: on a status >= 400 every response method returns an HTTPError with
\* that status, the headers as they were, and a preview that is a prefix of
\* the body of at most 1024 bytes; neither changes when the pooled buffer
\* is reused or the response's headers are modified afterwards.
C15_HTTPErrorPreview ==
    (dec.pc = "returned" /\ dec.in.status >= 400)
    => /\ dec.out.kind = "HTTPError"
       /\ dec.out.StatusCode = dec.in.status
       /\ dec.out.Header = dec.in.header
       /\ Len(ErrBody(dec)) <= 1024
       /\ Len(ErrBody(dec)) <= dec.in.bodyLen
       /\ \A k \in DOMAIN ErrBody(dec) : ErrBody(dec)[k] = BodyByte(k)

C15_Witness ==
    /\ dec.pc = "returned" /\ dec.in.status = 404 /\ dec.in.bodyLen = 1025
    /\ dec.in.method = "DecodeGOB" /\ dec.in.header = <<"v1", "v2">>
    /\ dec.reused /\ dec.mutated
    /\ dec.out.kind = "HTTPError" /\ Len(ErrBody(dec)) = 1024

\* C16: on a client with a timeout, a round trip does not stay in flight
\* for ever: it completes or the request is ended with a timeout error.
C16_TimeoutBoundsRequest ==
    (timeout > 0 /\ pc = "inflight")
    ~> (pc # "inflight")

\* an outcome the retry loop may repeat: a network error, or a response
\* without error whose status is in the policy's set
EligibleEntry(e) ==
    \/ e.err # NilErr /\ e.err[1] \in NetErrorKinds
    \/ e.err = NilErr /\ e.status \in retryOpts.RetryStatuses

\* C17: the retry loop goes past an attempt only if its outcome is a network
\* error or a retryable status; on any other outcome it stops at once and
\* Do returns that attempt's response and error unchanged.
C17_EligibleIffNetworkOrStatus ==
    (hist # <<>> /\ finalRT[1].kind = "retry")
    => LET e == hist[Len(hist)]
       IN  /\ \A k \in 1..(Len(hist) - 1) : EligibleEntry(hist[k])
           /\ EligibleEntry(e) => result.at # "not-retryable"
           /\ ~EligibleEntry(e)
              => /\ result.at = "not-retryable"
                 /\ transportCalls = Len(hist)
                 /\ result.err = e.err
                 /\ result.resp.status = e.status
                 /\ (e.err = NilErr /\ pc = "done") => result.resp.body = "open"

C17_Witness ==
    /\ pc = "done" /\ result.at = "not-retryable"
    /\ hist = <<[status |-> 503, err |-> NilErr],
                [status |-> 0, err |-> <<"Other">>]>>
    /\ result.err = <<"Other">> /\ result.resp = NoResp

C18_RequestsIndependent ==
    \A i \in ReqIds :
        LET c == conc[i]
            n == Len(c.hist)
        IN  /\ c.pc = "inflight" => c.attempt = n
            /\ c.pc = "wait"
               => /\ c.attempt = n - 1
                  /\ c.lastErr = c.hist[n].err
                  /\ c.lastResp.status = c.hist[n].status
            /\ (c.pc = "done" /\ ~c.retry)
               => /\ n = 1 /\ c.result.at = "direct"
                  /\ c.result.err = c.hist[1].err
                  /\ c.result.resp.status = c.hist[1].status
            /\ (c.pc = "done" /\ c.retry)
               => /\ n >= 1 /\ n <= retryOpts.MaxAttempts + 1
                  /\ \A k \in 1..(n - 1) : EligibleEntry(c.hist[k])
                  /\ c.result.resp.status \in {0, c.hist[n].status}
                  /\ IF ~EligibleEntry(c.hist[n])
                       THEN /\ c.result.at = "not-retryable"
                            /\ c.result.err = c.hist[n].err
                     ELSE IF c.req.GetBody = "ok"
                       THEN /\ n = retryOpts.MaxAttempts + 1
                            /\ c.result.at = "exhausted"
                            /\ c.result.err = <<"ErrMaxRetriesExceeded">>
                     ELSE /\ n = 1
                          /\ c.result.at =
                               IF c.req.GetBody = "nil" THEN "getbody-nil"
                               ELSE "getbody-err"

C18_Witness ==
    /\ retryOpts.MaxAttempts = 2
    /\ conc[1].pc = "done" /\ conc[1].req.GetBody = "ok"
    /\ conc[1].result.at = "exhausted" /\ Len(conc[1].hist) = 3
    /\ conc[2].pc = "wait" /\ conc[2].req.GetBody = "ok"
    /\ conc[2].attempt = 0 /\ conc[2].lastErr = <<"NetRefused">>

\* C20: without jitter and with 0 < BaseDelay <= MaxDelay the backoff delay
\* is positive, at most MaxDelay, and not smaller than the delay of the
\* attempt before, for every attempt index.
C20_BackoffPositiveBoundedMonotone ==
    LET max == ToInt64(bk.opts.MaxDelay * NsPerMs)
    IN  /\ Less64(Zero64, bk.delay)
        /\ ~Less64(max, bk.delay)
        /\ ~Less64(bk.delay, bk.prev)

\* a round trip of the retry layer ends with a refused connection and the
\* loop goes on to wait some delay other than d milliseconds
WaitsOtherThan(d) ==
    /\ TransportReturn
    /\ hist' = Append(hist, [status |-> 0, err |-> <<"NetRefused">>])
    /\ pc' = "wait"
    /\ delay' # d

\* C21: with jitter the wait after an attempt is not fixed by the policy and
\* the attempt index: besides the delay the backoff formula gives for the
\* attempt, another delay is possible for the same policy and attempt.
C21_JitterRandomized ==
    ( /\ retryOpts.Jitter /\ pc = "inflight" /\ ctx = "live"
      /\ finalRT[1].kind = "retry" /\ attempt < retryOpts.MaxAttempts )
    => ENABLED WaitsOtherThan(calculateExponentialBackoff(retryOpts, attempt, TRUE))

\* every option of the list was given an empty server list
OnlyEmptyLists(d) == \A k \in 1..Len(d.opts) : d.opts[k] = 0

\* C22: WithDNSResolver with an empty server list leaves the client as it
\* was: the dial function and its server list are the ones installed before,
\* and a client built with such options only never resolves by itself (no DNS
\* server contacted, the address dialled as it is by the default dialer).
C22_EmptyListNoOp ==
    [][ /\ ( dial.pc = "new" /\ dial.k <= Len(dial.opts)
             /\ dial.opts[dial.k] = 0 )
           => /\ dial'.DialContext = dial.DialContext
              /\ dial'.dnsServers = dial.dnsServers
        /\ ( OnlyEmptyLists(dial') /\ dial'.pc # "new" )
           => /\ dial'.DialContext = "dialer"
              /\ dial'.contacted = <<>>
              /\ dial'.dials = <<OrigAddr>> ]_vars

\* a client built with two empty server lists has dialled
C22_Witness ==
    /\ dial.pc = "done" /\ dial.opts = <<0, 0>>
    /\ dial.DialContext = "dialer" /\ dial.conn = OrigAddr

\* the loop is at the head of an iteration, an attempt is still due, and the
\* request's context is done
CtxDoneBeforeAttempt ==
    pc = "loop" /\ attempt <= retryOpts.MaxAttempts /\ ctx # "live"

\* the iteration ends the loop with the context error and a nil response,
\* and next is not called
EndsWithCtxError ==
    /\ pc' = "done"
    /\ result'.resp = NoResp
    /\ result'.err = wrapError(CtxErr(ctx))
    /\ calls' = calls /\ transportCalls' = transportCalls
    /\ attempt = 0 => (calls' = 0 /\ transportCalls' = 0)

\* C23 as stated: whenever the context is done at the head of an iteration,
\* next is not called and the loop returns the context error and a nil
\* response.
C23_CtxCheckedBeforeEveryAttempt ==
    [][ (CtxDoneBeforeAttempt /\ pc' # "loop") => EndsWithCtxError ]_vars

\* C23 amended: the same for the first iteration and for every later one
\* whose GetBody gives a fresh body; a later iteration without a usable
\* GetBody ends before the context is looked at.
C23_CtxCheckedAfterBodyStep ==
    [][ ( /\ CtxDoneBeforeAttempt /\ pc' # "loop"
          /\ (attempt = 0 \/ req.GetBody = "ok") ) => EndsWithCtxError ]_vars

\* the context was cancelled after the wait and the second iteration, which
\* had a fresh body, returned the context error after one round trip
C23_Witness ==
    /\ pc = "done" /\ result.at = "ctx-check" /\ attempt = 1
    /\ req.GetBody = "ok" /\ ctx = "canceled" /\ transportCalls = 1
    /\ result.resp = NoResp

\* C24: the attempts of one request are sequential: next is called for
\* attempt k+1 only when attempt k has returned and its response body, if
\* any, is drained and closed; the attempt index advances only out of the
\* wait; and at most one round trip is in flight at any time.
C24_AttemptsSequential ==
    [][ /\ calls' = calls + 1
           => /\ Len(hist) = attempt /\ calls = attempt
              /\ transportCalls = attempt
              /\ attempt > 0 => /\ hist[attempt].err # NilErr
                                   \/ lastResp.body \in {"drained", "closed"}
                                /\ hist[attempt].err # NilErr
                                   => lastResp = NoResp
        /\ attempt' = attempt + 1
           => /\ pc = "wait" /\ pc' = "loop"
              /\ Len(hist) = attempt + 1
              /\ ctx = "live" \/ delay <= 0
        /\ transportCalls' = Len(hist') + (IF pc' = "inflight" THEN 1 ELSE 0)
        /\ transportCalls' # transportCalls => pc # "inflight" ]_vars

\* the second round trip is in flight after a 503 whose body was drained
C24_Witness ==
    /\ pc = "inflight" /\ attempt = 1 /\ transportCalls = 2
    /\ hist = <<[status |-> 503, err |-> NilErr]>>
    /\ lastResp # NoResp /\ lastResp.body = "drained"

\* the layers below the retry layer, outermost first, the transport last
LowerChain ==
    SubSeq(finalRT, IF finalRT[1].kind = "retry" THEN 2 ELSE 1, Len(finalRT))

C26_RetryAfterOnlyFor429 ==
    ( /\ pc = "wait" /\ lastResp # NoResp /\ lastResp.status # 429
      /\ parseRetryAfter(lastResp.retryAfter).ok
      /\ parseRetryAfter(lastResp.retryAfter).d > 0 )
    => delay = calculateExponentialBackoff(retryOpts, attempt, retryOpts.Jitter)

\* C27: when the custom lookup succeeds with an empty list of IPs,
\* DialContext returns the "no IP addresses" error, which is no dial error,
\* dials nothing, neither a candidate nor the original address, and returns
\* no connection.
C27_EmptyAnswerIsItsOwnError ==
    ( /\ dial.pc = "done" /\ dial.in.addrOK /\ ~ResolutionFails(dial.in)
      /\ dial.in.lookup.ips = <<>> )
    => /\ dial.err = ErrNoIPs
       /\ dial.err.kind \notin {"nil", "dial", "resolve"}
       /\ dial.dials = <<>>
       /\ dial.conn = NoConn

\* the second DNS server answered with no IP while the default dialer would
\* have connected
C27_Witness ==
    /\ dial.pc = "done" /\ dial.in.addrOK /\ dial.in.dnsUp = <<FALSE, TRUE>>
    /\ ~dial.in.lookup.err /\ dial.in.lookup.ips = <<>>
    /\ dial.in.defaultDial = "conn" /\ dial.err = ErrNoIPs

\* C28: for an address that does not split into host and port, DialContext
\* makes one call of the default dialer with the address as it is and returns
\* its result; no DNS server is contacted and nothing is looked up.
C28_MalformedAddressGoesToDefault ==
    (dial.pc = "done" /\ ~dial.in.addrOK)
    => /\ dial.dials = <<OrigAddr>>
       /\ dial.contacted = <<>>
       /\ dial.ips = <<>> /\ dial.srv = 0
       /\ dial.conn = DefaultDialer(dial.in, OrigAddr).conn
       /\ dial.err = DefaultDialer(dial.in, OrigAddr).err

\* a call with a malformed address and reachable DNS servers has returned
\* the default dialer's error
C28_Witness ==
    /\ dial.pc = "done" /\ ~dial.in.addrOK /\ dial.in.dnsUp = <<TRUE, TRUE>>
    /\ dial.dials = <<OrigAddr>> /\ dial.err = DialErr(OrigAddr)

C30_BodyNotReusableIsAnError ==
    ( /\ pc = "done" /\ finalRT[1].kind = "retry" /\ req.GetBody = "nil"
      /\ Len(hist) = 1 /\ EligibleEntry(hist[1]) )
    => result.err # NilErr

\* C31: a request without GetBody whose first attempt may be retried makes Do
\* return without a delay being computed or waited: the loop is never in its
\* backoff wait for such a request, and at the return no delay was computed.
C31_BodyNotReusableIsImmediate ==
    ( /\ finalRT # <<>> /\ finalRT[1].kind = "retry" /\ req.GetBody = "nil"
      /\ Len(hist) = 1 /\ EligibleEntry(hist[1]) )
    => /\ pc # "wait"
       /\ pc = "done" => delay = 0

\* C32: when the last attempt the policy allows returns a retryable status
\* without a transport error, Do returns the response of that attempt, its
\* body still open, together with the max-retries-exceeded error.
C32_ExhaustedReturnsLastResponse ==
    ( /\ pc = "done" /\ finalRT[1].kind = "retry"
      /\ Len(hist) = retryOpts.MaxAttempts + 1
      /\ RetryableStatusEntry(hist[Len(hist)]) )
    => /\ result.resp # NoResp
       /\ result.resp = lastResp
       /\ result.resp.status = hist[Len(hist)].status
       /\ result.resp.body = "open"
       /\ result.err = <<"ErrMaxRetriesExceeded">>

\* the third attempt of three returned 503 after two drained 429 responses
C32_Witness ==
    /\ pc = "done" /\ retryOpts.MaxAttempts = 2 /\ transportCalls = 3
    /\ hist = <<[status |-> 429, err |-> NilErr], [status |-> 429, err |-> NilErr],
               [status |-> 503, err |-> NilErr]>>
    /\ result.resp.status = 503 /\ result.resp.body = "open"
    /\ result.err = <<"ErrMaxRetriesExceeded">>

\* C33: the bytes read as the body of a request built with Set*Body are the
\* encoding of the value given to that call, whatever other users of the
\* buffer pool did between the call and the read.
C33_BodyIsItsEncoding ==
    bufferPool.pc = "on"
    => \A b \in Builders :
          bufferPool.rb[b].pc = "read"
          => bufferPool.rb[b].sent = Encode(bufferPool.rb[b].v)

\* C34: the first execution of Do on a client made with StartPolicy uses that
\* policy throughout, whatever SetRetryOptions calls happen meanwhile: it
\* makes at most StartPolicy.MaxAttempts + 1 round trips and every wait is the
\* delay StartPolicy gives.
C34_PolicyFixedPerExecution ==
    execs = 1
    => /\ transportCalls <= StartPolicy.MaxAttempts + 1
       /\ pc = "wait" => delay = RetryDelay(StartPolicy, lastResp, attempt)

\* C35: a response that Do returns together with a nil error has its body
\* untouched by the retry loop: not drained and not closed.
C35_NilErrorMeansUnreadBody ==
    (pc = "done" /\ result.resp # NoResp /\ result.err = NilErr)
    => result.resp.body = "open"

\* an execution of Do is under way
Executing == pc \in {"call", "loop", "inflight", "wait"}

\* at most MaxAttempts + 1 calls to the next handler, as many round trips,
\* and at most MaxAttempts waits begun
AttemptsBounded ==
    /\ calls <= retryOpts.MaxAttempts + 1
    /\ transportCalls <= retryOpts.MaxAttempts + 1
    /\ attempt <= retryOpts.MaxAttempts
    /\ pc = "wait" => attempt + 1 <= retryOpts.MaxAttempts

\* C36: under a policy that does not change, every execution of Do returns,
\* and at every moment it has made at most MaxAttempts + 1 calls to the next
\* handler (and as many round trips) and begun at most MaxAttempts waits.
C36_RetryLoopTerminates ==
    /\ AttemptsBounded
    /\ [][AttemptsBounded']_vars
    /\ (Executing ~> pc = "done")

\* Do has returned after MaxAttempts + 1 round trips and MaxAttempts waits
C36_Witness ==
    /\ pc = "done" /\ retryOpts.MaxAttempts = 2 /\ result.at = "exhausted"
    /\ transportCalls = 3 /\ calls = 3 /\ attempt = 2

\* the positions of the options of one kind in a list of options
OptionsOf(opts, kind) == { k \in DOMAIN opts : opts[k].kind = kind }
\* the argument of the last option of a kind
LastArg(opts, kind) ==
    opts[CHOOSE k \in OptionsOf(opts, kind) :
            \A j \in OptionsOf(opts, kind) : j <= k].arg
\* the list has a WithDNSResolver with servers and a dial option
ResolverAndDialOption(opts) ==
    /\ \E k \in OptionsOf(opts, "WithDNSResolver") : opts[k].arg > 0
    /\ OptionsOf(opts, "WithDialTimeout") \cup
       OptionsOf(opts, "WithKeepAliveTimeout") # {}

\* C37: New with a WithDNSResolver that has servers and a WithDialTimeout or
\* WithKeepAliveTimeout, in either order, gives a client whose transport
\* dials through the custom DNS dialer, with the timeouts the options set.
C37_DialOptionsCommute ==
    ResolverAndDialOption(dial.opts)
    => /\ dial.pc # "panic"
       /\ dial.k > Len(dial.opts)
          => /\ dial.DialContext = "custom"
             /\ dial.defaultDialer = "dialer"
             /\ OptionsOf(dial.opts, "WithDialTimeout") # {}
                => dial.netDialer.Timeout = LastArg(dial.opts, "WithDialTimeout")
             /\ OptionsOf(dial.opts, "WithKeepAliveTimeout") # {}
                => dial.netDialer.KeepAlive =
                      LastArg(dial.opts, "WithKeepAliveTimeout")
       /\ dial.pc = "dialed" => dial.via = "custom"

\* C38: the client's dialer field is set when an option runs, no option
\* dereferences a nil dialer, and an installed customDialer holds a
\* non-nil default dialer.
C38_DialerInitialised ==
    /\ dial.pc # "panic"
    /\ dial.k > 1 => dial.dialer # "nil"
    /\ dial.DialContext = "custom" => dial.defaultDialer # "nil"

\* C39: with jitter and 0 < BaseDelay <= MaxDelay, the backoff delay waited
\* after an attempt without a response is at most MaxDelay.
C39_JitterWithinMaxDelay ==
    ( /\ pc = "wait" /\ lastResp = NoResp /\ retryOpts.Jitter
      /\ 0 < retryOpts.BaseDelay /\ retryOpts.BaseDelay <= retryOpts.MaxDelay )
    => delay <= retryOpts.MaxDelay

====
